---- MODULE Spec2Model ----
(***************************************************************************)
(* Model of train(opt) in train.py: checkpoint transplant and resume, the  *)
(* iteration loop, the validation cycle with its two best-metric           *)
(* checkpoints, and the periodic checkpoint.                               *)
(*                                                                         *)
(* Accuracies are whole percents (0.87 is 87).  A parameter tensor is a    *)
(* record [shape, val]: shape is an abstract size, val an abstract         *)
(* content that every optimizer step changes.                              *)
(***************************************************************************)
EXTENDS Integers, Sequences, FiniteSets, TLC

\* ------------------------------------------------------------------ bounds
\* iteration budget of the short runs (valInterval 1 and 2)
ShortNumIter == 5
\* iteration budget of the long runs (periodic checkpoints are reached)
LongNumIter == 2001
\* how many validation accuracies the history accTrace records
MaxTrace == 4
\* how often a run is stopped and started again from a periodic checkpoint
MaxRestarts == 1
\* how many parameters the model of the weight initialization has
MaxParams == 2
\* how many pieces a logged prediction is put together from
MaxPieces == 3

\* ------------------------------------------------------- program constants
\* best_accuracy = -1
best_accuracy_init == -1
\* best_norm_ED = 1e+6
best_norm_ED_init == 1000000
\* save model per 1000 iter.
save_interval == 1000

\* ------------------------------------------------------------ input domains
\* accuracies the validation routine can report
AccValues == {50, 55, 60, 70}
\* summed normalised edit distances the validation routine can report; the
\* sum grows with the validation set and is not bounded by 1e+6
NormEDValues == {1, 2, best_norm_ED_init + 1}

\* the parameters of Model(opt) after weight initialization
InitialModel ==
    [n \in {"conv.weight", "fc.bias"} |->
        IF n = "conv.weight" THEN [shape |-> 2, val |-> 0]
                             ELSE [shape |-> 1, val |-> 0]]

\* parameter maps found in pretrained files: each of the two model names and
\* one foreign name is absent, present with shape 1 or present with shape 2
PretrainNames == {"conv.weight", "fc.bias", "head.weight"}
PretrainDicts ==
    UNION { [S -> {[shape |-> 1, val |-> 7], [shape |-> 2, val |-> 7]}] :
            S \in SUBSET PretrainNames }

\* a file written by torch.save: a plain dict with keys, or a bare
\* OrderedDict parameter map
DictFile(d) == [type |-> "dict", data |-> d]
BareFile(sd) == [type |-> "OrderedDict", data |-> sd]

\* parameter map of a file a run of this model wrote earlier
SavedModel ==
    [n \in {"conv.weight", "fc.bias"} |->
        IF n = "conv.weight" THEN [shape |-> 2, val |-> 40]
                             ELSE [shape |-> 1, val |-> 40]]

\* checkpoints opt.continue_model can name: a parameter map of this model and
\* any subset of the optional keys.  best_accuracy.pth and best_norm_ED.pth
\* as written by the validation cycle are among them (no step, no optimizer)
OptionalKeys == {"step", "optimizer", "best_accuracy", "best_norm_ED"}
Restrict(f, S) == [k \in S |-> f[k]]
FullCheckpoints ==
    { [state_dict |-> SavedModel, step |-> s, optimizer |-> 40,
       best_accuracy |-> a, best_norm_ED |-> 2] :
        s \in {2, save_interval - 1}, a \in {60, 87} }
ResumeCheckpoints ==
    { Restrict(c, K \cup {"state_dict"}) : c \in FullCheckpoints, K \in SUBSET OptionalKeys }

\* ---------------------------------------------------------------- scenarios
\* command-line options and the files found on disk when train(opt) starts
\* Transformer stands for 'Transformer' in opt.SequenceModeling; the flags
\* have the values the __main__ block gives them unless a scenario sets them
Options(n, v, lw, cm) ==
    [num_iter |-> n, valInterval |-> v, load_weights |-> lw, continue_model |-> cm,
     Transformer |-> TRUE, Prediction |-> "None", adam |-> FALSE,
     use_scheduled_optim |-> FALSE]

\* the options o with the model and optimizer flags set
WithStrategy(o, t, p, a, s) ==
    [o EXCEPT !.Transformer = t, !.Prediction = p, !.adam = a, !.use_scheduled_optim = s]

FreshScenarios ==
    { [opt |-> Options(r[1], r[2], "", ""), disk |-> <<>>] :
        r \in { <<ShortNumIter, 1>>, <<ShortNumIter, 2>>, <<30, 10>>,
                <<LongNumIter \div 2 + 1, 300>>, <<LongNumIter, save_interval>> } }

TransplantScenarios ==
    { [opt |-> Options(ShortNumIter, 2, "pretrained.pth", ""),
       disk |-> [p \in {"pretrained.pth"} |-> f]] :
        f \in {DictFile([state_dict |-> sd]) : sd \in PretrainDicts}
              \cup {BareFile(sd) : sd \in PretrainDicts} }
    \cup { [opt |-> Options(ShortNumIter, 2, "pretrained.pth", ""), disk |-> <<>>] }

ResumeScenarios ==
    { [opt |-> Options(r[1], r[2], "", "resume.pth"),
       disk |-> [p \in {"resume.pth"} |-> DictFile(c)]] :
        r \in { <<ShortNumIter, 1>>, <<LongNumIter, save_interval>> },
        c \in ResumeCheckpoints }
    \cup { [opt |-> Options(ShortNumIter, 1, lw, "resume.pth"),
            disk |-> IF lw = "" THEN <<>>
                     ELSE [p \in {lw} |-> DictFile([state_dict |-> SavedModel])]] :
           lw \in {"", "pretrained.pth"} }
    \cup { [opt |-> Options(ShortNumIter, 1, "pretrained.pth", "resume.pth"), disk |-> <<>>] }

\* every combination of the flags on a short fresh run, and the warmup
\* schedule on resumed runs
StrategyScenarios ==
    { [opt |-> WithStrategy(Options(ShortNumIter, 2, "", ""), t, p, a, s), disk |-> <<>>] :
        t \in BOOLEAN, p \in {"None", "CTC", "Attn"}, a \in BOOLEAN, s \in BOOLEAN }
    \cup { [opt |-> WithStrategy(Options(ShortNumIter, 1, "", "resume.pth"),
                                 TRUE, "None", FALSE, TRUE),
            disk |-> [p \in {"resume.pth"} |-> DictFile(c)]] :
           c \in {k \in FullCheckpoints : k.best_accuracy = 60} }

Scenarios ==
    FreshScenarios \cup TransplantScenarios \cup ResumeScenarios \cup StrategyScenarios

\* -------------------------------------------------------------------- state
VARIABLES
    opt,               \* the options, fixed for the run
    disk,              \* path -> file, for the files with fixed names
    iter_pth,          \* n -> the checkpoint written as iter_{n}.pth
    pc,                \* position of the run in train(opt)
    error,             \* the exception that ended the run, "" if none
    model,             \* model.state_dict(): name -> [shape, val]
    optimizer,         \* optimizer.state_dict(), abstracted to a number
    start_iter,
    next_i,            \* next value of range(start_iter, opt.num_iter)
    best_accuracy,
    best_norm_ED,
    current_accuracy,  \* result of the last validation (0 before the first)
    current_norm_ED,
    validated,         \* the current iteration ran a validation cycle
    validations,       \* validation cycles run so far
    written,           \* files written by the last step of the run
    accTrace,          \* accuracies of the first MaxTrace validation cycles
    accWrites,         \* writes of best_accuracy.pth while accTrace grew
    first_iter,        \* index of the first iteration executed, -1 if none
    seen,              \* <<accuracy improved, edit distance improved>> seen
    mode,              \* model.training: "train" or "eval"
    ops,               \* what the current iteration has done: [op, mode] records
    optimizer_schedule,         \* the ScheduledOptim: [built, n_current_steps]
    optimizer_n_current_steps,  \* attribute set on optimizer, -1 if absent
    stopped,           \* what the runs stopped so far had reached
    named_parameters,  \* model.named_parameters() in the weight initialization
    init_pos,          \* position of the weight-initialization loop
    pair,              \* a (pred, gt) pair handed to the validation log
    log                \* the pairs as written to the log

\* the state of the run of train(opt)
trainVars == <<opt, disk, iter_pth, pc, error, model, optimizer, start_iter, next_i,
               best_accuracy, best_norm_ED, current_accuracy, current_norm_ED,
               validated, validations, written, accTrace, accWrites, first_iter, seen,
               mode, ops, optimizer_schedule, optimizer_n_current_steps>>

\* the state of the weight initialization and of the validation log
auxVars == <<named_parameters, init_pos, pair, log>>

vars == <<trainVars, stopped, auxVars>>

\* ------------------------------------------------------- optimizer strategy
\* 'Transformer' in opt.SequenceModeling and opt.use_scheduled_optim
UsesSchedule(o) == o.Transformer /\ o.use_scheduled_optim

\* setup optimizer: Adam, the warmup-scheduled Adam, or Adadelta
SelectOptimizer(o) ==
    IF o.adam THEN "Adam"
    ELSE IF UsesSchedule(o) THEN "ScheduledAdam"
    ELSE "Adadelta"

\* optimizer_schedule = ScheduledOptim(optimizer, opt.d_model, opt.n_warmup_steps)
\* is bound only in the second branch; its step counter starts at 0
BuildSchedule(o) ==
    [built |-> SelectOptimizer(o) = "ScheduledAdam", n_current_steps |-> 0]

\* the loop variable inside the loop body
i == next_i - 1

\* no run was stopped before this one
NoStop ==
    [restarts |-> 0, next_i |-> 0, best_accuracy |-> best_accuracy_init,
     best_norm_ED |-> best_norm_ED_init, executed |-> 0, validations |-> 0,
     first |-> 0]

\* the weight initialization and the log have nothing to work on
AuxIdle ==
    /\ named_parameters = <<>>
    /\ init_pos = 1
    /\ pair = [pred |-> <<>>, gt |-> <<>>]
    /\ log = <<>>

\* the state of train(opt) before the checkpoints are loaded, for the
\* options and files of one of the scenarios S
InitTrain(S) ==
    /\ \E sc \in S : opt = sc.opt /\ disk = sc.disk
    /\ iter_pth = <<>>
    /\ pc = "load_weights"
    /\ error = ""
    /\ model = InitialModel
    /\ optimizer = 0
    /\ start_iter = 0
    /\ next_i = 0
    /\ best_accuracy = best_accuracy_init
    /\ best_norm_ED = best_norm_ED_init
    /\ current_accuracy = 0
    /\ current_norm_ED = 0
    /\ validated = FALSE
    /\ validations = 0
    /\ written = {}
    /\ accTrace = <<>>
    /\ accWrites = 0
    /\ first_iter = -1
    /\ seen = {}
    /\ mode = "train"
    /\ ops = <<>>
    /\ optimizer_schedule = BuildSchedule(opt)
    /\ optimizer_n_current_steps = -1

Init ==
    /\ InitTrain(Scenarios)
    /\ stopped = NoStop
    /\ AuxIdle

\* ---------------------------------------------------------- file operations
\* iotools.check_isfile(path)
check_isfile(path) == path \in DOMAIN disk

\* torch.load(path) succeeds exactly when the file exists
CanLoad(path) == path \in DOMAIN disk

\* iotools.save_checkpoint(state, False, fpath) on the files with fixed names
save_checkpoint(d, state, fpath) ==
    [p \in DOMAIN d \cup {fpath} |-> IF p = fpath THEN DictFile(state) ELSE d[p]]

\* -------------------------------------------------------- weight transplant
\* pretrain_dict = checkpoint['state_dict'] if type(checkpoint) == dict
PretrainDictOf(checkpoint) ==
    IF checkpoint.type = "dict" THEN checkpoint.data.state_dict ELSE checkpoint.data

\* variant: the filter compares names only
MatchingKeys_NameOnly(pretrain_dict, model_dict) ==
    { k \in DOMAIN pretrain_dict : k \in DOMAIN model_dict }

\* {k: v for k, v in pretrain_dict.items()
\*        if k in model_dict and model_dict[k].size() == v.size()}
MatchingKeys(pretrain_dict, model_dict) ==
    { k \in DOMAIN pretrain_dict :
        k \in DOMAIN model_dict /\ model_dict[k].shape = pretrain_dict[k].shape }

\* model_dict.update(pretrain_dict); model.load_state_dict(model_dict)
Transplant(pretrain_dict, model_dict) ==
    [k \in DOMAIN model_dict |->
        IF k \in MatchingKeys(pretrain_dict, model_dict) THEN pretrain_dict[k]
                                                         ELSE model_dict[k]]

LoadWeightsApplies == opt.load_weights # "" /\ check_isfile(opt.load_weights)

LoadWeights ==
    /\ pc = "load_weights"
    /\ IF LoadWeightsApplies
       THEN LET checkpoint == disk[opt.load_weights] IN
            IF checkpoint.type = "dict" /\ "state_dict" \notin DOMAIN checkpoint.data
            THEN /\ pc' = "aborted"
                 /\ error' = "KeyError"
                 /\ model' = model
            ELSE /\ pc' = "continue_model"
                 /\ error' = error
                 /\ model' = Transplant(PretrainDictOf(checkpoint), model)
       ELSE /\ pc' = "continue_model"
            /\ UNCHANGED <<error, model>>
    /\ written' = {}
    /\ UNCHANGED <<opt, disk, iter_pth, optimizer, start_iter, next_i, best_accuracy,
                   best_norm_ED, current_accuracy, current_norm_ED, validated,
                   validations, accTrace, accWrites, first_iter, seen,
                   mode, ops, optimizer_schedule, optimizer_n_current_steps>>
    /\ UNCHANGED <<stopped, auxVars>>

\* --------------------------------------------------------------- full resume
\* variant: the loop restarts at the saved step
ResumeStartIter_SameStep(checkpoint) == checkpoint.step

\* start_iter = checkpoint['step'] + 1
ResumeStartIter(checkpoint) == checkpoint.step + 1

\* if 'best_accuracy' in checkpoint.keys(): best_accuracy = checkpoint[...]
RestoredBestAccuracy(checkpoint, best) ==
    IF "best_accuracy" \in DOMAIN checkpoint THEN checkpoint.best_accuracy ELSE best

\* if 'best_norm_ED' in checkpoint.keys(): best_norm_ED = checkpoint[...]
RestoredBestNormED(checkpoint, best) ==
    IF "best_norm_ED" \in DOMAIN checkpoint THEN checkpoint.best_norm_ED ELSE best

\* if 'optimizer' in checkpoint.keys(): optimizer.load_state_dict(...)
RestoredOptimizer(checkpoint, o) ==
    IF "optimizer" \in DOMAIN checkpoint THEN checkpoint.optimizer ELSE o

\* variant: a missing resume file is skipped like a missing pretrained file
ResumeRequested_IfFile == opt.continue_model # "" /\ check_isfile(opt.continue_model)

\* if opt.continue_model != ''
ResumeRequested == opt.continue_model # ""

ContinueModel ==
    /\ pc = "continue_model"
    /\ IF ~ResumeRequested
       THEN /\ pc' = "train_mode"
            /\ UNCHANGED <<error, model, optimizer, start_iter, best_accuracy, best_norm_ED>>
       ELSE IF ~CanLoad(opt.continue_model)
       THEN \* torch.load raises
            /\ pc' = "aborted"
            /\ error' = "FileNotFoundError"
            /\ UNCHANGED <<model, optimizer, start_iter, best_accuracy, best_norm_ED>>
       ELSE LET checkpoint == disk[opt.continue_model].data IN
            IF "step" \notin DOMAIN checkpoint
            THEN \* checkpoint['step'] raises after load_state_dict
                 /\ pc' = "aborted"
                 /\ error' = "KeyError"
                 /\ model' = checkpoint.state_dict
                 /\ UNCHANGED <<optimizer, start_iter, best_accuracy, best_norm_ED>>
            ELSE /\ pc' = "train_mode"
                 /\ error' = error
                 /\ model' = checkpoint.state_dict
                 /\ start_iter' = ResumeStartIter(checkpoint)
                 /\ optimizer' = RestoredOptimizer(checkpoint, optimizer)
                 /\ best_accuracy' = RestoredBestAccuracy(checkpoint, best_accuracy)
                 /\ best_norm_ED' = RestoredBestNormED(checkpoint, best_norm_ED)
    /\ written' = {}
    /\ UNCHANGED <<opt, disk, iter_pth, next_i, current_accuracy, current_norm_ED,
                   validated, validations, accTrace, accWrites, first_iter, seen,
                   mode, ops, optimizer_schedule, optimizer_n_current_steps>>
    /\ UNCHANGED <<stopped, auxVars>>

\* ------------------------------------------------------------ iteration loop
\* model = torch.nn.DataParallel(model).cuda(); model.train();
\* for i in tqdm(range(start_iter, opt.num_iter))
\* if 'Transformer' in opt.SequenceModeling and opt.use_scheduled_optim:
\*     optimizer.n_current_steps = start_iter
EnterLoop ==
    /\ pc = "train_mode"
    /\ pc' = "loop"
    /\ mode' = "train"
    /\ optimizer_n_current_steps' =
         IF UsesSchedule(opt) THEN start_iter ELSE optimizer_n_current_steps
    /\ next_i' = start_iter
    /\ written' = {}
    /\ UNCHANGED <<opt, disk, iter_pth, error, model, optimizer, start_iter,
                   best_accuracy, best_norm_ED, current_accuracy, current_norm_ED,
                   validated, validations, accTrace, accWrites, first_iter, seen,
                   ops, optimizer_schedule>>
    /\ UNCHANGED <<stopped, auxVars>>

\* model.eval() and model.train() switch the mode, nothing else does
ModeAfter(op, m) ==
    IF op = "model.eval" THEN "eval" ELSE IF op = "model.train" THEN "train" ELSE m

\* the operations names, run in order from mode m, each with the mode it ran in
RECURSIVE RunOps(_, _)
RunOps(names, m) ==
    IF names = <<>> THEN <<>>
    ELSE <<[op |-> Head(names), mode |-> ModeAfter(Head(names), m)]>>
         \o RunOps(Tail(names), ModeAfter(Head(names), m))

\* the mode after running names from mode m
ModeAfterOps(names, m) ==
    IF names = <<>> THEN m ELSE RunOps(names, m)[Len(names)].mode

\* variant: every path clips before it steps
UpdateOps_ClipAlways(o) ==
    IF UsesSchedule(o) THEN <<"clip_grad_norm_", "step_and_update_lr">>
    ELSE <<"clip_grad_norm_", "optimizer.step">>

\* the update of one training step, by path
UpdateOps(o) ==
    IF UsesSchedule(o) THEN <<"step_and_update_lr">>
    ELSE IF o.Transformer THEN <<"optimizer.step">>
    ELSE <<"clip_grad_norm_", "optimizer.step">>

\* the name optimizer_schedule is unbound when the step needs it
ScheduleMissing == UsesSchedule(opt) /\ ~optimizer_schedule.built

\* ScheduledOptim.step_and_update_lr() counts the step
StepSchedule(sch) == [sch EXCEPT !.n_current_steps = sch.n_current_steps + 1]

\* optimizer.step(): every parameter changes
OptimizerStep(model_dict) ==
    [k \in DOMAIN model_dict |->
        [shape |-> model_dict[k].shape, val |-> model_dict[k].val + 1]]

\* variant: the periodic checkpoint is written before the validation part
AfterPhase_SaveFirst(phase) ==
    IF phase = "loop" THEN "save"
    ELSE IF phase = "save" THEN "validation"
    ELSE "loop"

\* the order of the parts of the loop body: the training step, then the
\* validation part, then the periodic checkpoint, then the next iteration
AfterPhase(phase) ==
    IF phase = "loop" THEN "validation"
    ELSE IF phase = "validation" THEN "save"
    ELSE "loop"

\* one pass of the loop body up to loss_avg.add(cost), the best metrics apart
IterateBody ==
    /\ pc = "loop"
    /\ next_i < opt.num_iter
    /\ next_i' = next_i + 1
    /\ validated' = FALSE
    /\ first_iter' = IF first_iter = -1 THEN next_i ELSE first_iter
    /\ written' = {}
    /\ IF ScheduleMissing
       THEN \* optimizer_schedule.step_and_update_lr() raises NameError
            /\ pc' = "aborted"
            /\ error' = "NameError"
            /\ ops' = RunOps(<<"forward", "zero_grad", "backward">>, mode)
            /\ UNCHANGED <<model, optimizer, optimizer_schedule>>
       ELSE /\ pc' = AfterPhase("loop")
            /\ error' = error
            /\ ops' = RunOps(<<"forward", "zero_grad", "backward">> \o UpdateOps(opt)
                                \o <<"loss_avg.add">>, mode)
            /\ model' = OptimizerStep(model)
            /\ optimizer' = optimizer + 1
            /\ optimizer_schedule' = IF UsesSchedule(opt) THEN StepSchedule(optimizer_schedule)
                                                          ELSE optimizer_schedule
    /\ UNCHANGED <<opt, disk, iter_pth, start_iter, current_accuracy, current_norm_ED,
                   validations, accTrace, accWrites, seen, mode,
                   optimizer_n_current_steps>>
    /\ UNCHANGED <<stopped, auxVars>>

\* variant: the best accuracy is re-initialised inside the loop
Iterate_ResetsBest ==
    /\ IterateBody
    /\ best_accuracy' = best_accuracy_init
    /\ UNCHANGED best_norm_ED

Iterate ==
    /\ IterateBody
    /\ UNCHANGED <<best_accuracy, best_norm_ED>>

\* range(start_iter, opt.num_iter) is exhausted
LoopEnd ==
    /\ pc = "loop"
    /\ next_i >= opt.num_iter
    /\ pc' = "done"
    /\ written' = {}
    /\ UNCHANGED <<opt, disk, iter_pth, error, model, optimizer, start_iter, next_i,
                   best_accuracy, best_norm_ED, current_accuracy, current_norm_ED,
                   validated, validations, accTrace, accWrites, first_iter, seen,
                   mode, ops, optimizer_schedule, optimizer_n_current_steps>>
    /\ UNCHANGED <<stopped, auxVars>>

\* ---------------------------------------------------------- validation cycle
\* variant: the test without its i > 0 conjunct
ValidationDue_NoGuard(k, valInterval) == (k + 1) % valInterval = 0

\* if i > 0 and (i+1) % opt.valInterval == 0
ValidationDue(k, valInterval) == k > 0 /\ (k + 1) % valInterval = 0

\* variant: a non-strict comparison
AccuracyImproved_NonStrict(current, best) == current >= best

\* variant: any different accuracy replaces the best
AccuracyImproved_AnyChange(current, best) == current # best

\* if current_accuracy > best_accuracy
AccuracyImproved(current, best) == current > best

\* variant: the edit-distance checkpoint follows the accuracy comparison
NormEDImproved_NonStrict(current, best) == current <= best

\* if current_norm_ED < best_norm_ED
NormEDImproved(current, best) == current < best

\* {'best_accuracy': best_accuracy, 'state_dict': state_dict}
BestAccuracyCheckpoint(best, state_dict) ==
    [best_accuracy |-> best, state_dict |-> state_dict]

\* {'best_norm_ED': best_norm_ED, 'state_dict': state_dict}
BestNormEDCheckpoint(best, state_dict) ==
    [best_norm_ED |-> best, state_dict |-> state_dict]

\* variant: the model is not put back into training mode
ValidationOps_NoTrain(accUp, edUp) ==
    <<"model.eval", "validation">>
    \o (IF accUp THEN <<"save best_accuracy.pth">> ELSE <<>>)
    \o (IF edUp THEN <<"save best_norm_ED.pth">> ELSE <<>>)

\* model.eval(); validation(...); model.train(); then the best-metric saves
ValidationOps(accUp, edUp) ==
    <<"model.eval", "validation", "model.train">>
    \o (IF accUp THEN <<"save best_accuracy.pth">> ELSE <<>>)
    \o (IF edUp THEN <<"save best_norm_ED.pth">> ELSE <<>>)

Validation ==
    /\ pc = "validation"
    /\ pc' = AfterPhase("validation")
    /\ IF ValidationDue(i, opt.valInterval)
       THEN \E acc \in AccValues, ed \in NormEDValues :
            LET accUp == AccuracyImproved(acc, best_accuracy)
                edUp == NormEDImproved(ed, best_norm_ED)
                newAcc == IF accUp THEN acc ELSE best_accuracy
                newED == IF edUp THEN ed ELSE best_norm_ED
                disk1 == IF accUp
                         THEN save_checkpoint(disk, BestAccuracyCheckpoint(newAcc, model),
                                              "best_accuracy.pth")
                         ELSE disk
                disk2 == IF edUp
                         THEN save_checkpoint(disk1, BestNormEDCheckpoint(newED, model),
                                              "best_norm_ED.pth")
                         ELSE disk1
            IN  /\ current_accuracy' = acc
                /\ current_norm_ED' = ed
                /\ validated' = TRUE
                /\ validations' = validations + 1
                /\ best_accuracy' = newAcc
                /\ best_norm_ED' = newED
                /\ disk' = disk2
                /\ written' = (IF accUp THEN {"best_accuracy.pth"} ELSE {})
                              \cup (IF edUp THEN {"best_norm_ED.pth"} ELSE {})
                /\ accTrace' = IF Len(accTrace) < MaxTrace THEN Append(accTrace, acc)
                                                           ELSE accTrace
                /\ accWrites' = IF Len(accTrace) < MaxTrace /\ "best_accuracy.pth" \in written'
                                THEN accWrites + 1 ELSE accWrites
                /\ seen' = seen \cup {<<accUp, edUp>>}
                /\ ops' = ops \o RunOps(ValidationOps(accUp, edUp), mode)
                /\ mode' = ModeAfterOps(ValidationOps(accUp, edUp), mode)
       ELSE /\ written' = {}
            /\ UNCHANGED <<disk, best_accuracy, best_norm_ED, current_accuracy,
                           current_norm_ED, validated, validations, accTrace,
                           accWrites, seen, ops, mode>>
    /\ UNCHANGED <<opt, iter_pth, error, model, optimizer, start_iter, next_i, first_iter,
                   optimizer_schedule, optimizer_n_current_steps>>
    /\ UNCHANGED <<stopped, auxVars>>

\* ------------------------------------------------------- periodic checkpoint
\* variant: the cadence counted on i instead of i + 1
SaveDue_OnIndex(k) == k % save_interval = 0

\* variant: a checkpoint at every second interval only
SaveDue_EveryOther(k) == (k + 1) % (2 * save_interval) = 0

\* if (i + 1) % 1000 == 0
SaveDue(k) == (k + 1) % save_interval = 0

\* variant: the checkpoint records the index of the next iteration
IterCheckpoint_NextStep(state_dict, optimizer_state_dict, step, bestAcc, bestED) ==
    [state_dict |-> state_dict, optimizer |-> optimizer_state_dict, step |-> step + 1,
     best_accuracy |-> bestAcc, best_norm_ED |-> bestED]

\* the dict handed to save_checkpoint for iter_{i+1}.pth
IterCheckpoint(state_dict, optimizer_state_dict, step, bestAcc, bestED) ==
    [state_dict |-> state_dict, optimizer |-> optimizer_state_dict, step |-> step,
     best_accuracy |-> bestAcc, best_norm_ED |-> bestED]

\* f'./saved_models/{opt.experiment_name}/iter_{i+1}.pth'
IterFileNumber(k) == k + 1

SaveModel ==
    /\ pc = "save"
    /\ pc' = AfterPhase("save")
    /\ IF SaveDue(i)
       THEN /\ iter_pth' = [n \in DOMAIN iter_pth \cup {IterFileNumber(i)} |->
                              IF n = IterFileNumber(i)
                              THEN IterCheckpoint(model, optimizer, i, best_accuracy,
                                                  best_norm_ED)
                              ELSE iter_pth[n]]
            /\ written' = {"iter.pth"}
            /\ ops' = ops \o RunOps(<<"save iter.pth">>, mode)
       ELSE /\ iter_pth' = iter_pth
            /\ written' = {}
            /\ ops' = ops
    /\ UNCHANGED <<opt, disk, error, model, optimizer, start_iter, next_i,
                   best_accuracy, best_norm_ED, current_accuracy, current_norm_ED,
                   validated, validations, accTrace, accWrites, first_iter, seen,
                   mode, optimizer_schedule, optimizer_n_current_steps>>
    /\ UNCHANGED <<stopped, auxVars>>

Next ==
    \/ LoadWeights
    \/ ContinueModel
    \/ EnterLoop
    \/ Iterate
    \/ LoopEnd
    \/ Validation
    \/ SaveModel

Spec == Init /\ [][Next]_vars

\* ------------------------------------------------------ weight initialization
\* the substrings the loop looks for in a parameter name
Markers == {"localization_fc2", "bias", "weight"}

\* a parameter: its name, given by the markers the name contains, whether
\* init.kaiming_normal_ accepts its tensor (it raises on a tensor of fewer
\* than two dimensions, the batchnorm weights), and its values
Parameters ==
    [name : SUBSET Markers, kaiming_ok : BOOLEAN, data : {"constructed"}]

\* model.named_parameters() of models with 1 to MaxParams parameters
ParameterLists == UNION { [1..n -> Parameters] : n \in 1..MaxParams }

\* the try block: constant_ on a bias, else kaiming_normal_ on a weight
TryInit(param) ==
    IF "bias" \in param.name
    THEN [data |-> "zero", raised |-> FALSE]
    ELSE IF "weight" \in param.name
    THEN [data |-> IF param.kaiming_ok THEN "kaiming_normal" ELSE param.data,
          raised |-> ~param.kaiming_ok]
    ELSE [data |-> param.data, raised |-> FALSE]

\* variant: the weight rule is tried before the bias rule
InitializeParameter_WeightFirst(param) ==
    IF "localization_fc2" \in param.name
    THEN [data |-> param.data, raised |-> FALSE]
    ELSE IF "weight" \in param.name
    THEN [data |-> IF param.kaiming_ok THEN "kaiming_normal" ELSE "one",
          raised |-> FALSE]
    ELSE IF "bias" \in param.name
    THEN [data |-> "zero", raised |-> FALSE]
    ELSE [data |-> param.data, raised |-> FALSE]

\* one pass of the loop body: the values of param afterwards, and whether an
\* exception leaves the loop
InitializeParameter(param) ==
    IF "localization_fc2" \in param.name
    THEN [data |-> param.data, raised |-> FALSE]
    ELSE LET tried == TryInit(param) IN
         IF tried.raised
         THEN \* except Exception: fill_(1) on a weight, continue
              [data |-> IF "weight" \in param.name THEN "one" ELSE tried.data,
               raised |-> FALSE]
         ELSE tried

\* for name, param in model.named_parameters(): one parameter
WeightInit ==
    /\ pc = "load_weights"
    /\ init_pos <= Len(named_parameters)
    /\ LET after == InitializeParameter(named_parameters[init_pos]) IN
         /\ named_parameters' =
              [named_parameters EXCEPT ![init_pos].data = after.data]
         /\ IF after.raised
            THEN pc' = "aborted" /\ error' = "Exception"
            ELSE UNCHANGED <<pc, error>>
    /\ init_pos' = init_pos + 1
    /\ UNCHANGED <<opt, disk, iter_pth, model, optimizer, start_iter, next_i,
                   best_accuracy, best_norm_ED, current_accuracy, current_norm_ED,
                   validated, validations, written, accTrace, accWrites, first_iter,
                   seen, mode, ops, optimizer_schedule, optimizer_n_current_steps>>
    /\ UNCHANGED <<stopped, pair, log>>

\* a freshly constructed model of any of the parameter lists
InitWeights ==
    /\ InitTrain({[opt |-> Options(ShortNumIter, 2, "", ""), disk |-> <<>>]})
    /\ stopped = NoStop
    /\ named_parameters \in ParameterLists
    /\ init_pos = 1
    /\ pair = [pred |-> <<>>, gt |-> <<>>]
    /\ log = <<>>

NextWeights == WeightInit

SpecWeights == InitWeights /\ [][NextWeights]_vars

\* ------------------------------------------------------------ validation log
\* strings are sequences of characters
EndOfSentence == <<"<", "/", "s", ">">>
AttnEnd == <<"[", "s", "]">>

\* what predictions are put together from: letters, the two markers, and
\* beginnings and ends of markers
Pieces == { <<"a">>, <<"b">>, EndOfSentence, AttnEnd, <<"<">>, <<"s", "]">> }

RECURSIVE Flatten(_)
Flatten(ss) == IF ss = <<>> THEN <<>> ELSE Head(ss) \o Flatten(Tail(ss))

\* the predictions of up to MaxPieces pieces
Texts == UNION { {Flatten(f) : f \in [1..n -> Pieces]} : n \in 0..MaxPieces }

\* ground truths as the converters decode them
GroundTruths == { <<"a", "b">>, <<"a", "b">> \o EndOfSentence, <<"a", "b">> \o AttnEnd }

\* str.find: the lowest index at which sub occurs in s, -1 if it does not
find(s, sub) ==
    LET at == {k \in 0..(Len(s) - Len(sub)) : SubSeq(s, k + 1, k + Len(sub)) = sub}
    IN  IF at = {} THEN -1 ELSE CHOOSE k \in at : \A j \in at : k <= j

\* s[:n]: a negative n counts from the end
SliceTo(s, n) ==
    LET stop == IF n < 0 THEN (IF Len(s) + n < 0 THEN 0 ELSE Len(s) + n)
                ELSE IF n > Len(s) THEN Len(s) ELSE n
    IN  SubSeq(s, 1, stop)

\* model configuration: the label converter (and with it the loss)
Converter(o) ==
    IF o.Transformer THEN "TransformerLabelConverter"
    ELSE IF o.Prediction = "CTC" THEN "CTCLabelConverter"
    ELSE "AttnLabelConverter"

\* what the log loop does to pred and to gt
StripForLog(o, s) ==
    IF o.Transformer THEN SliceTo(s, find(s, EndOfSentence))
    ELSE IF o.Prediction = "Attn" THEN SliceTo(s, find(s, AttnEnd))
    ELSE s

\* for pred, gt in zip(preds[:5], gts[:5]): one pair
LogPair ==
    /\ log = <<>>
    /\ LET pred == StripForLog(opt, pair.pred)
           gt == StripForLog(opt, pair.gt)
       IN  log' = <<[pred |-> pred, gt |-> gt, equal |-> (pred = gt)]>>
    /\ UNCHANGED <<trainVars, stopped, named_parameters, init_pos, pair>>

\* every variant and prediction head, one pair to log
LogScenarios ==
    { [opt |-> WithStrategy(Options(ShortNumIter, 2, "", ""), t, p, FALSE, FALSE),
       disk |-> <<>>] : t \in BOOLEAN, p \in {"None", "CTC", "Attn"} }

InitLog ==
    /\ InitTrain(LogScenarios)
    /\ stopped = NoStop
    /\ named_parameters = <<>>
    /\ init_pos = 1
    /\ pair \in [pred : Texts, gt : GroundTruths]
    /\ log = <<>>

NextLog == LogPair

SpecLog == InitLog /\ [][NextLog]_vars

\* ---------------------------------------------------------- stop and restart
\* the process is stopped right after iter_{i+1}.pth was written, and train
\* is started again with the same options and --continue_model naming that
\* file; "iter_n.pth" is the path of that file in disk.  What the stopped
\* runs had reached is kept in stopped.
Restart ==
    /\ pc = "loop"
    /\ written = {"iter.pth"}
    /\ stopped.restarts < MaxRestarts
    /\ stopped' = [restarts |-> stopped.restarts + 1,
                   next_i |-> next_i,
                   best_accuracy |-> best_accuracy,
                   best_norm_ED |-> best_norm_ED,
                   executed |-> stopped.executed + (next_i - start_iter),
                   validations |-> stopped.validations + validations,
                   first |-> IF stopped.restarts = 0 THEN start_iter ELSE stopped.first]
    /\ opt' = [opt EXCEPT !.continue_model = "iter_n.pth"]
    /\ disk' = [p \in DOMAIN disk \cup {"iter_n.pth"} |->
                  IF p = "iter_n.pth" THEN DictFile(iter_pth[IterFileNumber(i)])
                  ELSE disk[p]]
    /\ iter_pth' = iter_pth
    /\ pc' = "load_weights"
    /\ error' = ""
    /\ model' = InitialModel
    /\ optimizer' = 0
    /\ start_iter' = 0
    /\ next_i' = 0
    /\ best_accuracy' = best_accuracy_init
    /\ best_norm_ED' = best_norm_ED_init
    /\ current_accuracy' = 0
    /\ current_norm_ED' = 0
    /\ validated' = FALSE
    /\ validations' = 0
    /\ written' = {}
    /\ accTrace' = <<>>
    /\ accWrites' = 0
    /\ first_iter' = -1
    /\ seen' = {}
    /\ mode' = "train"
    /\ ops' = <<>>
    /\ optimizer_schedule' = BuildSchedule(opt')
    /\ optimizer_n_current_steps' = -1
    /\ UNCHANGED auxVars

\* the runs long enough to write a periodic checkpoint
InitRestart ==
    /\ InitTrain({sc \in Scenarios : sc.opt.num_iter >= save_interval})
    /\ stopped = NoStop
    /\ AuxIdle

NextRestart ==
    \/ LoadWeights
    \/ ContinueModel
    \/ EnterLoop
    \/ Iterate
    \/ LoopEnd
    \/ Validation
    \/ SaveModel
    \/ Restart

SpecRestart == InitRestart /\ [][NextRestart]_vars

\* ================================================================= properties
\* the checkpoint opt.continue_model names, when it can be loaded
Resumable == ResumeRequested /\ CanLoad(opt.continue_model)
ResumeCheckpoint == disk[opt.continue_model].data

\* the run is past a successful full resume
Resumed ==
    /\ Resumable
    /\ pc \in {"train_mode", "loop", "validation", "save", "done"}

\* the step just taken was a validation cycle (not a skipped one)
ValidationCycle == pc = "validation" /\ pc' = "save" /\ validated'

\* the file p is the same before and after the step
FileUntouched(p) ==
    /\ (p \in DOMAIN disk') = (p \in DOMAIN disk)
    /\ p \in DOMAIN disk => disk'[p] = disk[p]

\* C1: from every state to the next, start-up resume included, best_accuracy
\* never decreases and best_norm_ED never increases.
C1_BestMetricsMonotonic ==
    [][best_accuracy' >= best_accuracy /\ best_norm_ED' <= best_norm_ED]_vars

\* C1 witness: a resumed run whose restored bests were both improved later
C1_Witness ==
    /\ Resumed
    /\ "best_accuracy" \in DOMAIN ResumeCheckpoint
    /\ "best_norm_ED" \in DOMAIN ResumeCheckpoint
    /\ best_accuracy > ResumeCheckpoint.best_accuracy
    /\ best_norm_ED < ResumeCheckpoint.best_norm_ED

\* number of strict running maxima of the sequence s above the start value b
RECURSIVE StrictMaxima(_, _)
StrictMaxima(s, b) ==
    IF s = <<>> THEN 0
    ELSE IF Head(s) > b THEN 1 + StrictMaxima(Tail(s), Head(s))
                        ELSE StrictMaxima(Tail(s), b)

\* the running best accuracy when the loop starts
StartBestAccuracy ==
    IF Resumable /\ "best_accuracy" \in DOMAIN ResumeCheckpoint
    THEN ResumeCheckpoint.best_accuracy
    ELSE best_accuracy_init

\* C2: best_accuracy.pth is written in a validation cycle if and only if the
\* cycle's accuracy is strictly greater than the running best before it, it
\* is written in no other step, and the number of writes equals the number
\* of strict running maxima of the accuracies reported so far.
C2_WriteIffStrictlyBetter ==
    /\ [][ /\ ValidationCycle =>
                (("best_accuracy.pth" \in written') <=> (current_accuracy' > best_accuracy))
           /\ ~FileUntouched("best_accuracy.pth") =>
                (ValidationCycle /\ "best_accuracy.pth" \in written') ]_vars
    /\ [](pc \notin {"load_weights", "continue_model", "aborted"} =>
            accWrites = StrictMaxima(accTrace, StartBestAccuracy))

\* C2 witness: accuracies 0.5, 0.6, 0.55, 0.7 from a fresh start, three writes
C2_Witness ==
    /\ ~ResumeRequested
    /\ accTrace = <<50, 60, 55, 70>>
    /\ accWrites = 3
    /\ "best_accuracy.pth" \in written

\* C3: in a validation cycle each of the two best-metric files is written
\* if and only if its own metric improved, a file whose metric did not
\* improve is left as it was, and the two files hold different metrics.
C3_BestFilesIndependent ==
    /\ [][ValidationCycle =>
            /\ ("best_accuracy.pth" \in written') <=> (current_accuracy' > best_accuracy)
            /\ ("best_norm_ED.pth" \in written') <=> (current_norm_ED' < best_norm_ED)
            /\ "best_accuracy.pth" \notin written' => FileUntouched("best_accuracy.pth")
            /\ "best_norm_ED.pth" \notin written' => FileUntouched("best_norm_ED.pth")
            /\ "best_accuracy.pth" \in written' =>
                 disk'["best_accuracy.pth"] =
                     DictFile([best_accuracy |-> current_accuracy', state_dict |-> model])
            /\ "best_norm_ED.pth" \in written' =>
                 disk'["best_norm_ED.pth"] =
                     DictFile([best_norm_ED |-> current_norm_ED', state_dict |-> model])
          ]_vars

\* C3 witness: one run has seen all four combinations of the two improvements
C3_Witness ==
    /\ seen = {<<TRUE, TRUE>>, <<TRUE, FALSE>>, <<FALSE, TRUE>>, <<FALSE, FALSE>>}
    /\ "best_accuracy.pth" \in DOMAIN disk
    /\ "best_norm_ED.pth" \in DOMAIN disk

\* a run that started from scratch has finished its loop
FreshRunDone == pc = "done" /\ start_iter = 0

\* C4 (as amended): a validation cycle runs at the end of iteration i if and
\* only if i > 0 and (i+1) mod valInterval = 0; a fresh run of num_iter >= 1
\* iterations performs floor(num_iter / valInterval) cycles when
\* valInterval >= 2 and num_iter - 1 cycles when valInterval = 1.
C4_ValidationCadence ==
    /\ pc = "save" => (validated <=> (i > 0 /\ (i + 1) % opt.valInterval = 0))
    /\ FreshRunDone =>
         validations = IF opt.valInterval = 1 THEN opt.num_iter - 1
                                              ELSE opt.num_iter \div opt.valInterval

\* C4 witness: valInterval = 10 and num_iter = 30 end with three cycles
C4_Witness ==
    /\ FreshRunDone
    /\ opt.valInterval = 10
    /\ opt.num_iter = 30
    /\ validations = 3

\* C4 as stated: validation at the end of iteration i iff (i+1) mod
\* valInterval = 0, hence floor(num_iter / valInterval) cycles in a fresh run
C4_AsStated ==
    /\ pc = "save" => (validated <=> ((i + 1) % opt.valInterval = 0))
    /\ FreshRunDone => validations = opt.num_iter \div opt.valInterval

\* the step just taken was the periodic-checkpoint step of iteration i
SaveStep == pc = "save" /\ pc' = "loop"

\* C5: iter_{i+1}.pth is written at the end of iteration i if and only if
\* (i+1) mod 1000 = 0, whatever valInterval is; the file holds the current
\* parameters, the optimizer state, step = i and both running bests; no
\* other step writes such a file, and a run with num_iter < 1000 writes none.
C5_PeriodicCheckpoint ==
    /\ [][ /\ SaveStep =>
                /\ ("iter.pth" \in written') <=> ((i + 1) % 1000 = 0)
                /\ "iter.pth" \in written' =>
                     /\ DOMAIN iter_pth' = DOMAIN iter_pth \cup {i + 1}
                     /\ iter_pth'[i + 1] =
                          [state_dict |-> model, optimizer |-> optimizer, step |-> i,
                           best_accuracy |-> best_accuracy, best_norm_ED |-> best_norm_ED]
                     /\ \A n \in DOMAIN iter_pth : n # i + 1 => iter_pth'[n] = iter_pth[n]
                /\ "iter.pth" \notin written' => iter_pth' = iter_pth
           /\ iter_pth' # iter_pth => SaveStep ]_vars
    /\ [](opt.num_iter < 1000 => iter_pth = <<>>)

\* C5 witness: with valInterval = 300 the run has written iter_1000.pth
C5_Witness ==
    /\ opt.valInterval = 300
    /\ DOMAIN iter_pth = {1000}
    /\ iter_pth[1000].step = 999
    /\ "iter.pth" \in written

\* C6: after a full resume from a checkpoint with step s the loop starts at
\* s+1: the first iteration executed has index s+1 and every executed
\* iteration has an index above s.
C6_ResumeStartsAfterStep ==
    Resumed =>
        LET s == ResumeCheckpoint.step IN
        /\ start_iter = s + 1
        /\ pc \in {"loop", "validation", "save", "done"} /\ s + 1 < opt.num_iter =>
             (pc = "loop" /\ next_i = s + 1) \/ first_iter = s + 1
        /\ first_iter # -1 => first_iter = s + 1
        /\ pc \in {"validation", "save"} => i > s

\* C6 witness: resumed at step 999, iteration 1000 is the first one executed
C6_Witness ==
    /\ Resumed
    /\ ResumeCheckpoint.step = 999
    /\ pc = "validation"
    /\ i = 1000
    /\ first_iter = 1000

\* C7 as stated: after a full resume from a checkpoint without best_norm_ED
\* the best accuracy is the checkpoint's (or -1 if that key is missing too)
\* and the best edit distance is a sentinel above every value a validation
\* can report, so the first reported edit distance becomes the best.
C7_SentinelAboveEveryReport ==
    (Resumed /\ "best_norm_ED" \notin DOMAIN ResumeCheckpoint) =>
        /\ pc = "train_mode" =>
             /\ best_norm_ED = best_norm_ED_init
             /\ best_accuracy = IF "best_accuracy" \in DOMAIN ResumeCheckpoint
                                THEN ResumeCheckpoint.best_accuracy
                                ELSE best_accuracy_init
        /\ (pc = "save" /\ validated /\ validations = 1) =>
             best_norm_ED = current_norm_ED

\* C8 as stated: a full resume from a checkpoint that holds a parameter map
\* never fails, whichever optional keys are missing.
C8_ResumeNeverFails ==
    Resumable => pc # "aborted"

\* the parameter map of the file opt.load_weights names
PretrainedDict == PretrainDictOf(disk[opt.load_weights])

\* C9: after load_weights a model parameter holds the checkpoint's value if
\* and only if the checkpoint has an entry of the same name and the same
\* shape; every other parameter keeps its value, the model gains no
\* parameter, and the load raises no error.
C9_TransplantNameAndShape ==
    /\ pc = "continue_model" =>
         /\ error = ""
         /\ DOMAIN model = DOMAIN InitialModel
         /\ \A k \in DOMAIN model :
              model[k] = IF /\ LoadWeightsApplies
                            /\ k \in DOMAIN PretrainedDict
                            /\ PretrainedDict[k].shape = InitialModel[k].shape
                         THEN PretrainedDict[k]
                         ELSE InitialModel[k]
    /\ error = "KeyError" => opt.continue_model # ""

\* C9 witness: one entry matches, one has another shape, one an unknown name
C9_Witness ==
    /\ pc = "continue_model"
    /\ LoadWeightsApplies
    /\ DOMAIN PretrainedDict = {"conv.weight", "fc.bias", "head.weight"}
    /\ PretrainedDict["conv.weight"].shape = InitialModel["conv.weight"].shape
    /\ PretrainedDict["fc.bias"].shape # InitialModel["fc.bias"].shape
    /\ model["conv.weight"] = PretrainedDict["conv.weight"]
    /\ model["fc.bias"] = InitialModel["fc.bias"]

\* no checkpoint file has been written by the run
NothingSaved ==
    /\ iter_pth = <<>>
    /\ "best_accuracy.pth" \notin DOMAIN disk
    /\ "best_norm_ED.pth" \notin DOMAIN disk

\* C10: a load_weights path that is no file changes nothing (parameters,
\* start_iter and both bests keep their from-scratch values, no error) and
\* the run trains from iteration 0; a continue_model path that cannot be
\* loaded ends the run with the load's error before any iteration is
\* executed and before any checkpoint is written.
C10_MissingPaths ==
    /\ (opt.load_weights # "" /\ ~check_isfile(opt.load_weights)) =>
         /\ pc = "continue_model" =>
              /\ model = InitialModel
              /\ start_iter = 0
              /\ best_accuracy = best_accuracy_init
              /\ best_norm_ED = best_norm_ED_init
              /\ error = ""
         /\ ~ResumeRequested =>
              /\ pc # "aborted"
              /\ start_iter = 0
              /\ pc = "done" => first_iter = 0
    /\ (opt.continue_model # "" /\ ~CanLoad(opt.continue_model)) =>
         /\ pc \in {"load_weights", "continue_model", "aborted"}
         /\ pc = "aborted" => error = "FileNotFoundError"
         /\ first_iter = -1
         /\ optimizer = 0
         /\ NothingSaved

\* C10 witness: neither path is a file; the run has aborted at the resume
C10_Witness ==
    /\ opt.load_weights # "" /\ ~check_isfile(opt.load_weights)
    /\ opt.continue_model # "" /\ ~CanLoad(opt.continue_model)
    /\ pc = "aborted"
    /\ error = "FileNotFoundError"
    /\ model = InitialModel

\* C11 as stated: with the warmup schedule active, the schedule's own step
\* counter equals start_iter before the first step of the run.
C11_ScheduleCounterResumed ==
    (optimizer_schedule.built /\ pc = "loop" /\ next_i = start_iter) =>
        optimizer_schedule.n_current_steps = start_iter

\* C12 as stated: with start_iter <= num_iter the loop executes the indices
\* start_iter .. num_iter-1 in order and then completes, and it ends in no
\* other way once it has started.
C12_LoopRunsToBudget ==
    start_iter <= opt.num_iter =>
        /\ pc \in {"validation", "save"} => (start_iter <= i /\ i < opt.num_iter)
        /\ pc = "done" =>
             /\ next_i = opt.num_iter
             /\ start_iter < opt.num_iter => first_iter = start_iter
        /\ pc = "aborted" => first_iter = -1

\* the names of the operations of the current iteration, in order
OpNames == [k \in DOMAIN ops |-> ops[k].op]
HasOp(name) == \E k \in DOMAIN ops : ops[k].op = name

\* the operation name runs directly after the operation before
DirectlyAfter(name, before) ==
    \E k \in DOMAIN ops : k > 1 /\ ops[k].op = name /\ ops[k - 1].op = before

\* C14: a training step clips the gradient norm if and only if the variant
\* is not Transformer, and then directly after backward and directly before
\* optimizer.step; the scheduled path runs step_and_update_lr directly after
\* backward and the plain Transformer path optimizer.step, both unclipped.
C14_ClippingByVariant ==
    ops # <<>> =>
        /\ HasOp("clip_grad_norm_") <=> ~opt.Transformer
        /\ \A k \in DOMAIN ops : ops[k].op = "clip_grad_norm_" =>
             /\ k > 1 /\ ops[k - 1].op = "backward"
             /\ k < Len(ops) /\ ops[k + 1].op = "optimizer.step"
        /\ (UsesSchedule(opt) /\ pc # "aborted") =>
             /\ DirectlyAfter("step_and_update_lr", "backward")
             /\ ~HasOp("optimizer.step")
        /\ (opt.Transformer /\ ~UsesSchedule(opt)) =>
             /\ DirectlyAfter("optimizer.step", "backward")
             /\ ~HasOp("step_and_update_lr")
        /\ ~opt.Transformer => ~HasOp("step_and_update_lr")

\* C14 witness: an Attn run has clipped and stepped, a validation followed
C14_Witness ==
    /\ ~opt.Transformer
    /\ opt.Prediction = "Attn"
    /\ pc = "save"
    /\ validated
    /\ DirectlyAfter("clip_grad_norm_", "backward")
    /\ DirectlyAfter("optimizer.step", "clip_grad_norm_")

\* C15 as stated: whatever the flags, the update of every training step is
\* the one of the strategy chosen at setup, and the scheduler is stepped
\* only in runs that built it, so no step fails for want of a scheduler.
C15_StepUsesSetupStrategy ==
    /\ error # "NameError"
    /\ HasOp("step_and_update_lr") <=>
         (ops # <<>> /\ SelectOptimizer(opt) = "ScheduledAdam")

UpdateNames == {"clip_grad_norm_", "optimizer.step", "step_and_update_lr"}
TrainingNames == {"forward", "zero_grad", "backward", "loss_avg.add"} \cup UpdateNames

\* C16: every operation of a training step runs in training mode, the first
\* step after a validation cycle included; the validation routine runs in
\* evaluation mode; a validation cycle changes no parameter and no optimizer
\* state, and no update runs between model.eval() and model.train().
C16_ModeFollowsPhase ==
    /\ [](/\ \A k \in DOMAIN ops :
               /\ ops[k].op \in TrainingNames => ops[k].mode = "train"
               /\ ops[k].op = "validation" => ops[k].mode = "eval"
               /\ ops[k].op \in UpdateNames => ops[k].mode # "eval"
          /\ pc \in {"loop", "save", "done"} => mode = "train"
          /\ HasOp("validation") <=> (validated /\ pc \in {"save", "loop", "done"}))
    /\ [][ValidationCycle => (model' = model /\ optimizer' = optimizer
                              /\ optimizer_schedule' = optimizer_schedule)]_vars

\* C16 witness: the training step that follows a validation cycle has run
C16_Witness ==
    /\ pc = "validation"
    /\ validations > 0
    /\ ops # <<>>
    /\ \A k \in DOMAIN ops : ops[k].mode = "train"
    /\ HasOp("backward")

InitPhases == {"load_weights", "continue_model", "train_mode"}

\* C17: once initialization is over, best_accuracy and best_norm_ED change
\* only in a validation cycle: a training step leaves them as they are, and
\* the periodic checkpoint stores them without changing them.
C17_BestChangesOnlyInValidation ==
    [][ /\ (pc \notin InitPhases /\ pc' \notin InitPhases
            /\ (best_accuracy' # best_accuracy \/ best_norm_ED' # best_norm_ED))
           => ValidationCycle
        /\ (pc = "loop" /\ pc' \in {"validation", "aborted"})
           => (best_accuracy' = best_accuracy /\ best_norm_ED' = best_norm_ED)
        /\ (SaveStep /\ "iter.pth" \in written')
           => /\ best_accuracy' = best_accuracy /\ best_norm_ED' = best_norm_ED
              /\ iter_pth'[i + 1].best_accuracy = best_accuracy
              /\ iter_pth'[i + 1].best_norm_ED = best_norm_ED ]_vars

\* C17 witness: an iteration without validation wrote a periodic checkpoint
\* that holds the running bests of earlier validation cycles
C17_Witness ==
    /\ pc = "loop"
    /\ "iter.pth" \in written
    /\ ~validated
    /\ validations > 0
    /\ iter_pth[next_i].best_accuracy = best_accuracy
    /\ iter_pth[next_i].best_norm_ED = best_norm_ED

\* ------------------------------------------------------------ recovery points
\* the newest iter_{n}.pth on disk
LatestIter == CHOOSE n \in DOMAIN iter_pth : \A m \in DOMAIN iter_pth : m <= n

\* the iteration counter a restart by full resume begins with: the newest
\* periodic checkpoint gives step + 1; before the first one is written the
\* run can only be started again the way it was started
RecoveryCounter ==
    IF DOMAIN iter_pth = {} THEN start_iter
    ELSE ResumeStartIter(iter_pth[LatestIter])

\* optimizer steps the live parameters are ahead of the saved parameters sd
StepsSince(sd) == model["fc.bias"].val - sd["fc.bias"].val

\* best_accuracy.pth and best_norm_ED.pth as far as this run has them on disk
BestFiles == {"best_accuracy.pth", "best_norm_ED.pth"} \cap DOMAIN disk

\* C13 (periodic part, which is what holds): wherever the process terminates
\* once the loop is entered, a restart by full resume from the newest
\* periodic checkpoint (or, before the first one is written, a restart from
\* the run's own starting point) begins at most 1000 iterations behind the
\* iteration reached, and the saved parameters are at most 1000 optimizer
\* steps behind the live ones.  Best-metric checkpoints bound nothing: they
\* are written only on strict improvement and record no iteration.
C13_PeriodicRecovery ==
    pc \notin InitPhases =>
        /\ RecoveryCounter <= next_i
        /\ next_i - RecoveryCounter <= save_interval
        /\ DOMAIN iter_pth # {} =>
             /\ StepsSince(iter_pth[LatestIter].state_dict) <= save_interval
             /\ StepsSince(iter_pth[LatestIter].state_dict) = next_i - RecoveryCounter

\* C13 witness: iteration 1999 has run and iter_1000.pth is still the newest
\* checkpoint, so stopping here loses exactly 1000 iterations
C13_Witness ==
    /\ pc = "save"
    /\ DOMAIN iter_pth = {save_interval}
    /\ RecoveryCounter = save_interval
    /\ next_i - RecoveryCounter = save_interval
    /\ BestFiles # {}

\* C13 as stated: in addition the newest best-metric checkpoint is at most
\* valInterval iterations behind.  The files hold no iteration, so the
\* distance is counted in optimizer steps since the write, the reading most
\* favourable to the statement (a restart from such a file counts from 0).
C13_AsStated ==
    pc \notin InitPhases =>
        /\ next_i - RecoveryCounter <= save_interval
        /\ BestFiles # {} =>
             \E p \in BestFiles : StepsSince(disk[p].data.state_dict) <= opt.valInterval

\* ----------------------------------------------------- save/resume round trip
\* the iterations from index first on at which one uninterrupted run of
\* opt.num_iter iterations validates, and the files it writes
UninterruptedValidations(first) ==
    {k \in first..(opt.num_iter - 1) : ValidationDue(k, opt.valInterval)}
UninterruptedIterFiles(first) ==
    {IterFileNumber(k) : k \in {j \in first..(opt.num_iter - 1) : SaveDue(j)}}

\* C20: a run stopped after writing the periodic checkpoint of iteration i
\* and started again by full resume from that file starts at i+1 with both
\* running bests as they were at the write; the runs together execute each
\* iteration index once, and validate and write periodic checkpoints at the
\* iterations at which one uninterrupted run does.
C20_SaveResumeRoundTrip ==
    stopped.restarts > 0 =>
        /\ pc # "aborted"
        /\ pc = "train_mode" =>
             /\ start_iter = stopped.next_i
             /\ best_accuracy = stopped.best_accuracy
             /\ best_norm_ED = stopped.best_norm_ED
        /\ pc \notin InitPhases =>
             /\ start_iter = stopped.next_i
             /\ first_iter # -1 => first_iter = stopped.next_i
             /\ stopped.executed + (next_i - start_iter) = next_i - stopped.first
        /\ pc = "done" =>
             /\ next_i = opt.num_iter
             /\ stopped.validations + validations =
                  Cardinality(UninterruptedValidations(stopped.first))
             /\ DOMAIN iter_pth = UninterruptedIterFiles(stopped.first)

\* C20 witness: a fresh run stopped after iteration 999, started again from
\* iter_1000.pth, has validated once before and once after the stop and ends
\* with iter_1000.pth and iter_2000.pth
C20_Witness ==
    /\ pc = "done"
    /\ stopped.restarts = 1
    /\ stopped.first = 0
    /\ stopped.next_i = save_interval
    /\ first_iter = save_interval
    /\ stopped.validations = 1
    /\ validations = 1
    /\ DOMAIN iter_pth = {save_interval, 2 * save_interval}

\* -------------------------------------------------- parameter initialization
\* what the rules, taken in the order skip, bias, weight, say a parameter holds
RuleValue(param) ==
    IF "localization_fc2" \in param.name THEN "constructed"
    ELSE IF "bias" \in param.name THEN "zero"
    ELSE IF "weight" \in param.name
    THEN (IF param.kaiming_ok THEN "kaiming_normal" ELSE "one")
    ELSE "constructed"

\* the parameters the loop has passed
Initialized == 1..(init_pos - 1)

\* C18: the initialization applies skip, bias, weight in this order to every
\* parameter: a name with the marker localization_fc2 keeps its values, else
\* a name with 'bias' ends zero (also with 'weight' in it), else a name with
\* 'weight' gets Kaiming-normal values or, when that is rejected, constant 1;
\* no rejection raises out of the loop, and the loop ends only after the last
\* parameter.
C18_InitializationRules ==
    /\ \A k \in Initialized : named_parameters[k].data = RuleValue(named_parameters[k])
    /\ \A k \in DOMAIN named_parameters \ Initialized :
          named_parameters[k].data = "constructed"
    /\ error = "" /\ pc # "aborted"
    /\ init_pos <= Len(named_parameters) + 1
    /\ init_pos <= Len(named_parameters) => ENABLED WeightInit

\* C18 witness: the loop is over; the first parameter, a weight Kaiming
\* rejects, holds 1 and the second, named with both 'bias' and 'weight',
\* holds zero
C18_Witness ==
    /\ Len(named_parameters) = 2
    /\ init_pos = Len(named_parameters) + 1
    /\ named_parameters[1] =
         [name |-> {"weight"}, kaiming_ok |-> FALSE, data |-> "one"]
    /\ named_parameters[2].name = {"bias", "weight"}
    /\ named_parameters[2].data = "zero"

\* ------------------------------------------------------------- logged strings
\* the end-of-sequence marker of the active variant: that of the converter
\* the run selected; <<>> where there is none
ActiveMarker(o) ==
    IF Converter(o) = "TransformerLabelConverter" THEN EndOfSentence
    ELSE IF Converter(o) = "AttnLabelConverter" THEN AttnEnd
    ELSE <<>>

\* s without the marker m and what follows it; s itself when m is not in s
WithoutMarker(s, m) ==
    IF m = <<>> \/ find(s, m) = -1 THEN s ELSE SubSeq(s, 1, find(s, m))

\* C19: a logged prediction or ground truth is the string without the
\* end-of-sequence marker of the active variant and what follows it: a
\* string without the marker is logged as it is, and '[s]' is stripped in
\* the configurations that selected the Attention converter and loss.
C19_StripOnlyMarker ==
    log # <<>> =>
        /\ log[1].pred = WithoutMarker(pair.pred, ActiveMarker(opt))
        /\ log[1].gt = WithoutMarker(pair.gt, ActiveMarker(opt))

\* ------------------------------------------- validation before the checkpoint
\* the running best after the accuracies s, starting from b
RECURSIVE RunningBest(_, _)
RunningBest(s, b) ==
    IF s = <<>> THEN b
    ELSE RunningBest(Tail(s), IF Head(s) > b THEN Head(s) ELSE b)

\* the iterations up to k at which this run validates
ValidationsUpTo(k) == {j \in start_iter..k : ValidationDue(j, opt.valInterval)}

\* the step just taken wrote a periodic checkpoint
IterWritten == iter_pth' # iter_pth

\* C21: in an iteration with both a validation cycle and a periodic
\* checkpoint the cycle, its best-metric updates and best-metric writes come
\* before the checkpoint is written, so every periodic checkpoint stores the
\* running bests after all validation cycles up to and including its own
\* iteration.
C21_ValidationBeforeCheckpoint ==
    [][ IterWritten =>
          LET saved == iter_pth'[IterFileNumber(i)] IN
          /\ validated <=> ValidationDue(i, opt.valInterval)
          /\ validations = Cardinality(ValidationsUpTo(i))
          /\ validated =>
               /\ HasOp("validation") /\ HasOp("model.train")
               /\ ops' = ops \o <<[op |-> "save iter.pth", mode |-> "train"]>>
               /\ saved.best_accuracy >= current_accuracy
               /\ saved.best_norm_ED <= current_norm_ED
               /\ "best_accuracy.pth" \in DOMAIN disk =>
                    disk["best_accuracy.pth"].data.best_accuracy = saved.best_accuracy
               /\ "best_norm_ED.pth" \in DOMAIN disk =>
                    disk["best_norm_ED.pth"].data.best_norm_ED = saved.best_norm_ED
          /\ saved.best_accuracy = best_accuracy
          /\ saved.best_norm_ED = best_norm_ED
          /\ validations = Len(accTrace) =>
               saved.best_accuracy = RunningBest(accTrace, StartBestAccuracy) ]_vars

\* C21 witness: iteration 1999 validated, raised the best accuracy above that
\* of iteration 999, wrote best_accuracy.pth and then iter_2000.pth, which
\* holds the raised best
C21_Witness ==
    /\ pc = "loop"
    /\ "iter.pth" \in written
    /\ validated
    /\ validations = 2
    /\ HasOp("save best_accuracy.pth")
    /\ iter_pth[next_i].best_accuracy = current_accuracy
    /\ iter_pth[next_i].best_accuracy > iter_pth[save_interval].best_accuracy

====
